---- MODULE Spec2Model ----
(***************************************************************************)
(* Model of the InfluxDB exporter of melody, middleware/melody-influxdb:   *)
(* Register and the export loop clientWrapper.updateAndSendData, with the  *)
(* bounded Retry Buffer the loop owns.                                     *)
(*                                                                         *)
(* Register runs first ("Register"); when it returns an error the loop is   *)
(* never started ("NotStarted").                                           *)
(* The loop is one goroutine.  Its positions are                           *)
(*   "Idle"        blocked in the select on the ticker and ctx.Done()      *)
(*   "Primary"     inside cw.client.Write(bp)                              *)
(*   "Retry"       inside cw.client.Write(retryBatch)                      *)
(*   "Terminated"  returned                                                *)
(* The ticker and the context are the environment.                         *)
(***************************************************************************)
EXTENDS Integers, Sequences, FiniteSets, TLC

(* ---- bounds ----------------------------------------------------------- *)
\* MaxCycles export cycles are run; a snapshot holds either no sample of a
\* kind or MaxCounters / MaxGauges / MaxHistograms of them; the configured
\* bufferSize is between 1 and MaxBufferSize.
MaxCycles == 3
MaxCounters == 1
MaxGauges == 1
MaxHistograms == 1
MaxBufferSize == 2

VARIABLES
  config,       \* influxdbConfig: [bufferSize, db]
  elementsClears, \* whether this Buffer's Elements() also empties it
  buf,          \* cw.buf: [size, data]
  ticker,       \* a tick is pending on the ticker channel (capacity 1)
  done,         \* ctx.Done() is closed
  pc,           \* position of the loop
  clock,        \* number of snapshots taken; also the snapshot's Time
  snapshot,     \* the snapshot of the current iteration (NoSnapshot: none)
  bp,           \* the batch of the current iteration (NoBatch: none)
  bpPending,    \* the result of cw.buf.Elements() in the current cycle
  retryBatch,   \* the merged batch of the current cycle
  sent,         \* the count logged by "datapoints sent to Influx" in this cycle
  bufStart,     \* history: buf.data when the current cycle started
  outcome,      \* history: how the current cycle ended
  nWrites,      \* history: Write calls issued in the current cycle
  nElements,    \* history: Elements() calls issued in the current cycle
  ticksAfterDone, \* history: ticks consumed after ctx.Done() was closed
  built,        \* history: Times of the snapshots a batch was built from
  written,      \* history: Times of the batches a successful Write carried
  evicted,      \* history: Times of the batches Add dropped beyond capacity
  startup,      \* what Register meets: [configOk, clientOk, pingOk]
  registerErr,  \* the value Register returned ("nil": no error)
  pings,        \* number of influxClient.Ping calls
  inFlight      \* history: the Write calls that have not returned,
                \* <<"primary" or "retry", cycle>>

vars == <<config, elementsClears, buf, ticker, done, pc, clock, snapshot, bp,
          bpPending, retryBatch, sent, bufStart, outcome, nWrites, nElements,
          ticksAfterDone, built, written, evicted, startup, registerErr,
          pings, inFlight>>

hostname == "host"
NoSnapshot == [Counters |-> <<>>, Gauges |-> <<>>, Histograms |-> <<>>, Time |-> 0]

(* ---- point converters (counter.Points, gauge.Points, histogram.Points) - *)
Points(kind, host, now, samples) ==
  [i \in 1..Len(samples) |->
     [kind |-> kind, host |-> host, time |-> now, sample |-> samples[i]]]

counterPoints(host, now, samples) == Points("counter", host, now, samples)
gaugePoints(host, now, samples) == Points("gauge", host, now, samples)
histogramPoints(host, now, samples) == Points("histogram", host, now, samples)

(* ---- client.BatchPoints ---------------------------------------------- *)
NewBatchPoints(db) == [db |-> db, precision |-> "s", points |-> <<>>]
AddPoints(b, ps) == [b EXCEPT !.points = @ \o ps]
NoBatch == NewBatchPoints("")

(* ---- Retry Buffer ----------------------------------------------------- *)
NewBuffer(size) == [size |-> size, data |-> <<>>]

KeepNewest(all, size) ==
  IF Len(all) > size THEN SubSeq(all, Len(all) - size + 1, Len(all)) ELSE all

KeepOldest(all, size) ==
  IF Len(all) > size THEN SubSeq(all, 1, size) ELSE all

Add_NoLimit(b, ps) == [b EXCEPT !.data = @ \o ps]

Add_DropNewest(b, ps) == [b EXCEPT !.data = KeepOldest(@ \o ps, b.size)]

\* Add(batch...): append, then evict the oldest entries beyond the capacity
Add(b, ps) == [b EXCEPT !.data = KeepNewest(@ \o ps, b.size)]

\* Elements(): the buffered batches in order
Elements(b) == b.data

\* the buffer after Elements()
AfterElements(b, clears) == IF clears THEN [b EXCEPT !.data = <<>>] ELSE b

\* the entries an Add(ps) on b drops: the oldest ones beyond the capacity
Dropped(b, ps) ==
  LET all == b.data \o ps
  IN  IF Len(all) > b.size THEN SubSeq(all, 1, Len(all) - b.size) ELSE <<>>

\* the Time of the snapshot a batch was built from (a batch that is sent
\* holds at least one counter or gauge point)
BatchTime(b) == b.points[1].time
BatchTimes(batches) == {BatchTime(batches[i]) : i \in 1..Len(batches)}

(* ---- the metrics source ---------------------------------------------- *)
Samples(n) == [i \in 1..n |-> i]

GetSnapshot(nc, ng, nh, time) ==
  [Counters |-> Samples(nc), Gauges |-> Samples(ng),
   Histograms |-> Samples(nh), Time |-> time]

(* ---- updateAndSendData, per-cycle computations ------------------------ *)
shouldSend_Histograms(s) ==
  Len(s.Counters) > 0 \/ Len(s.Gauges) > 0 \/ Len(s.Histograms) > 0

shouldSend(s) == Len(s.Counters) > 0 \/ Len(s.Gauges) > 0

BuildBatch_NoHistograms(s, db) ==
  LET now == s.Time
      b0 == NewBatchPoints(db)
      b1 == AddPoints(b0, counterPoints(hostname, now, s.Counters))
  IN  AddPoints(b1, gaugePoints(hostname, now, s.Gauges))

BuildBatch(s, db) ==
  LET now == s.Time
      b0 == NewBatchPoints(db)
      b1 == AddPoints(b0, counterPoints(hostname, now, s.Counters))
      b2 == AddPoints(b1, gaugePoints(hostname, now, s.Gauges))
  IN  AddPoints(b2, histogramPoints(hostname, now, s.Histograms))

RECURSIVE AllPoints(_)
AllPoints(batches) ==
  IF batches = <<>> THEN <<>>
  ELSE Head(batches).points \o AllPoints(Tail(batches))

Reverse(seq) == [i \in 1..Len(seq) |-> seq[Len(seq) + 1 - i]]

BuildRetryBatch_NewestFirst(pending, db) ==
  AddPoints(NewBatchPoints(db), AllPoints(Reverse(pending)))

BuildRetryBatch(pending, db) == AddPoints(NewBatchPoints(db), AllPoints(pending))

(* ---- before Register --------------------------------------------------- *)
NoBuffer == NewBuffer(0)

Init ==
  /\ config \in [bufferSize : 1..MaxBufferSize, db : {"melody"}]
  /\ elementsClears \in BOOLEAN
  /\ startup \in [configOk : BOOLEAN, clientOk : BOOLEAN, pingOk : BOOLEAN]
  /\ registerErr = "nil"
  /\ pings = 0
  /\ inFlight = {}
  /\ buf = NoBuffer
  /\ ticker = FALSE
  /\ done = FALSE
  /\ pc = "Register"
  /\ clock = 0
  /\ snapshot = NoSnapshot
  /\ bp = NoBatch
  /\ bpPending = <<>>
  /\ retryBatch = NoBatch
  /\ sent = 0
  /\ bufStart = <<>>
  /\ outcome = "none"
  /\ nWrites = 0
  /\ nElements = 0
  /\ ticksAfterDone = 0
  /\ built = {}
  /\ written = {}
  /\ evicted = {}

(* ---- Register --------------------------------------------------------- *)
RegisterFrame ==
  UNCHANGED <<config, elementsClears, startup, ticker, done, clock, snapshot,
              bp, bpPending, retryBatch, sent, bufStart, outcome, nWrites,
              nElements, ticksAfterDone, built, written, evicted, inFlight>>

Register_IgnoresPingError ==
  /\ pc = "Register"
  /\ IF ~startup.configOk
     THEN /\ registerErr' = "configErr"
          /\ pc' = "NotStarted"
          /\ UNCHANGED <<pings, buf>>
     ELSE IF ~startup.clientOk
     THEN /\ registerErr' = "clientErr"
          /\ pc' = "NotStarted"
          /\ UNCHANGED <<pings, buf>>
     ELSE /\ pings' = pings + 1
          /\ registerErr' = "nil"
          /\ buf' = NewBuffer(config.bufferSize)
          /\ pc' = "Idle"
  /\ RegisterFrame

\* Register: configuration lookup, client construction, one Ping, then the
\* ticker, the buffer and go updateAndSendData
Register ==
  /\ pc = "Register"
  /\ IF ~startup.configOk
     THEN /\ registerErr' = "configErr"
          /\ pc' = "NotStarted"
          /\ UNCHANGED <<pings, buf>>
     ELSE IF ~startup.clientOk
     THEN /\ registerErr' = "clientErr"
          /\ pc' = "NotStarted"
          /\ UNCHANGED <<pings, buf>>
     ELSE /\ pings' = pings + 1
          /\ IF ~startup.pingOk
             THEN /\ registerErr' = "pingErr"
                  /\ pc' = "NotStarted"
                  /\ UNCHANGED buf
             ELSE /\ registerErr' = "nil"
                  /\ buf' = NewBuffer(config.bufferSize)
                  /\ pc' = "Idle"
  /\ RegisterFrame

(* ---- environment ------------------------------------------------------ *)
\* time.Ticker, created by Register after the Ping: a tick is delivered
\* unless one is still pending
Tick ==
  /\ pc \notin {"Register", "NotStarted"}
  /\ ~ticker
  /\ ticker' = TRUE
  /\ UNCHANGED <<inFlight,
                 startup, registerErr, pings,
                 built, written, evicted,
                 config, elementsClears, buf, done, pc, clock, snapshot, bp,
                 bpPending, retryBatch, sent, bufStart, outcome, nWrites,
                 nElements, ticksAfterDone>>

\* the service context is cancelled
Cancel ==
  /\ ~done
  /\ done' = TRUE
  /\ UNCHANGED <<inFlight,
                 startup, registerErr, pings,
                 built, written, evicted,
                 config, elementsClears, buf, ticker, pc, clock, snapshot, bp,
                 bpPending, retryBatch, sent, bufStart, outcome, nWrites,
                 nElements, ticksAfterDone>>

(* ---- the loop --------------------------------------------------------- *)
SelectTick_AfterReturn ==
  /\ pc \in {"Idle", "Terminated"}
  /\ ticker
  /\ clock < MaxCycles
  /\ ticker' = FALSE
  /\ clock' = clock + 1
  /\ ticksAfterDone' = IF done THEN ticksAfterDone + 1 ELSE ticksAfterDone
  /\ bufStart' = buf.data
  /\ bpPending' = <<>>
  /\ retryBatch' = NoBatch
  /\ nElements' = 0
  /\ \E nc \in {0, MaxCounters}, ng \in {0, MaxGauges}, nh \in {0, MaxHistograms} :
       LET s == GetSnapshot(nc, ng, nh, clock + 1) IN
       /\ snapshot' = s
       /\ IF ~shouldSend(s)
          THEN /\ pc' = "Idle"
               /\ bp' = NoBatch
               /\ outcome' = "skipped"
               /\ nWrites' = 0
          ELSE /\ pc' = "Primary"
               /\ bp' = BuildBatch(s, config.db)
               /\ outcome' = "running"
               /\ nWrites' = 1
  /\ sent' = 0
  /\ built' = IF shouldSend(snapshot') THEN built \cup {clock + 1} ELSE built
  /\ inFlight' = IF shouldSend(snapshot') THEN inFlight \cup {<<"primary", clock + 1>>}
                  ELSE inFlight
  /\ UNCHANGED <<startup, registerErr, pings,
                 written, evicted,
                 config, elementsClears, buf, done>>

\* case <-ticker: snapshot, send-worthiness test, batch, call of Write(bp)
SelectTick ==
  /\ pc = "Idle"
  /\ ticker
  /\ clock < MaxCycles
  /\ ticker' = FALSE
  /\ clock' = clock + 1
  /\ ticksAfterDone' = IF done THEN ticksAfterDone + 1 ELSE ticksAfterDone
  /\ bufStart' = buf.data
  /\ bpPending' = <<>>
  /\ retryBatch' = NoBatch
  /\ nElements' = 0
  /\ \E nc \in {0, MaxCounters}, ng \in {0, MaxGauges}, nh \in {0, MaxHistograms} :
       LET s == GetSnapshot(nc, ng, nh, clock + 1) IN
       /\ snapshot' = s
       /\ IF ~shouldSend(s)
          THEN /\ pc' = "Idle"
               /\ bp' = NoBatch
               /\ outcome' = "skipped"
               /\ nWrites' = 0
          ELSE /\ pc' = "Primary"
               /\ bp' = BuildBatch(s, config.db)
               /\ outcome' = "running"
               /\ nWrites' = 1
  /\ sent' = 0
  /\ built' = IF shouldSend(snapshot') THEN built \cup {clock + 1} ELSE built
  /\ inFlight' = IF shouldSend(snapshot') THEN inFlight \cup {<<"primary", clock + 1>>}
                  ELSE inFlight
  /\ UNCHANGED <<startup, registerErr, pings,
                 written, evicted,
                 config, elementsClears, buf, done>>

\* case <-ctx.Done(): return
SelectDone ==
  /\ pc = "Idle"
  /\ done
  /\ pc' = "Terminated"
  /\ UNCHANGED <<inFlight,
                 startup, registerErr, pings,
                 built, written, evicted,
                 config, elementsClears, buf, ticker, done, clock, snapshot,
                 bp, bpPending, retryBatch, sent, bufStart, outcome, nWrites,
                 nElements, ticksAfterDone>>

PrimaryFail_NoAdd ==
  /\ pc = "Primary"
  /\ pc' = "Idle"
  /\ outcome' = "primaryFailed"
  /\ inFlight' = inFlight \ {<<"primary", clock>>}
  /\ UNCHANGED <<startup, registerErr, pings,
                 built, written, evicted,
                 config, elementsClears, buf, ticker, done, clock, snapshot,
                 bp, bpPending, retryBatch, sent, bufStart, nWrites,
                 nElements, ticksAfterDone>>

PrimaryFail_Return ==
  /\ pc = "Primary"
  /\ buf' = Add(buf, <<bp>>)
  /\ pc' = "Terminated"
  /\ outcome' = "primaryFailed"
  /\ evicted' = evicted \cup BatchTimes(Dropped(buf, <<bp>>))
  /\ inFlight' = inFlight \ {<<"primary", clock>>}
  /\ UNCHANGED <<startup, registerErr, pings,
                 built, written,
                 config, elementsClears, ticker, done, clock, snapshot, bp,
                 bpPending, retryBatch, sent, bufStart, nWrites, nElements,
                 ticksAfterDone>>

\* Write(bp) returned an error: cw.buf.Add(bp); continue
PrimaryFail ==
  /\ pc = "Primary"
  /\ buf' = Add(buf, <<bp>>)
  /\ pc' = "Idle"
  /\ outcome' = "primaryFailed"
  /\ evicted' = evicted \cup BatchTimes(Dropped(buf, <<bp>>))
  /\ inFlight' = inFlight \ {<<"primary", clock>>}
  /\ UNCHANGED <<startup, registerErr, pings,
                 built, written,
                 config, elementsClears, ticker, done, clock, snapshot, bp,
                 bpPending, retryBatch, sent, bufStart, nWrites, nElements,
                 ticksAfterDone>>

PrimaryOk_CountsRetryPoints ==
  /\ pc = "Primary"
  /\ sent' = Len(bp.points) + Len(AllPoints(Elements(buf)))
  /\ bpPending' = Elements(buf)
  /\ buf' = AfterElements(buf, elementsClears)
  /\ nElements' = nElements + 1
  /\ retryBatch' = BuildRetryBatch(Elements(buf), config.db)
  /\ nWrites' = nWrites + 1
  /\ pc' = "Retry"
  /\ written' = written \cup {BatchTime(bp)}
  /\ inFlight' = (inFlight \ {<<"primary", clock>>}) \cup {<<"retry", clock>>}
  /\ UNCHANGED <<startup, registerErr, pings,
                 built, evicted,
                 config, elementsClears, ticker, done, clock, snapshot, bp,
                 bufStart, outcome, ticksAfterDone>>

PrimaryOk_NotAwaited ==
  /\ pc = "Primary"
  /\ sent' = Len(bp.points)
  /\ bpPending' = Elements(buf)
  /\ buf' = AfterElements(buf, elementsClears)
  /\ nElements' = nElements + 1
  /\ retryBatch' = BuildRetryBatch(Elements(buf), config.db)
  /\ nWrites' = nWrites + 1
  /\ pc' = "Retry"
  /\ written' = written \cup {BatchTime(bp)}
  /\ inFlight' = inFlight \cup {<<"retry", clock>>}
  /\ UNCHANGED <<startup, registerErr, pings,
                 built, evicted,
                 config, elementsClears, ticker, done, clock, snapshot, bp,
                 bufStart, outcome, ticksAfterDone>>

PrimaryOk_SkipsEmptyRetry ==
  \/ /\ pc = "Primary"
     /\ Elements(buf) = <<>>
     /\ sent' = Len(bp.points)
     /\ bpPending' = Elements(buf)
     /\ buf' = AfterElements(buf, elementsClears)
     /\ nElements' = nElements + 1
     /\ pc' = "Idle"
     /\ outcome' = "sent"
     /\ written' = written \cup {BatchTime(bp)}
     /\ inFlight' = inFlight \ {<<"primary", clock>>}
     /\ UNCHANGED <<startup, registerErr, pings, built, evicted, config,
                    elementsClears, ticker, done, clock, snapshot, bp,
                    retryBatch, nWrites, bufStart, ticksAfterDone>>
  \/ /\ Elements(buf) # <<>>
     /\ pc = "Primary"
     /\ sent' = Len(bp.points)
     /\ bpPending' = Elements(buf)
     /\ buf' = AfterElements(buf, elementsClears)
     /\ nElements' = nElements + 1
     /\ retryBatch' = BuildRetryBatch(Elements(buf), config.db)
     /\ nWrites' = nWrites + 1
     /\ pc' = "Retry"
     /\ written' = written \cup {BatchTime(bp)}
     /\ inFlight' = (inFlight \ {<<"primary", clock>>}) \cup {<<"retry", clock>>}
     /\ UNCHANGED <<startup, registerErr, pings,
                    built, evicted,
                    config, elementsClears, ticker, done, clock, snapshot, bp,
                    bufStart, outcome, ticksAfterDone>>

\* Write(bp) returned nil: log the count, Elements(), merge, call of
\* Write(retryBatch)
PrimaryOk ==
  /\ pc = "Primary"
  /\ sent' = Len(bp.points)
  /\ bpPending' = Elements(buf)
  /\ buf' = AfterElements(buf, elementsClears)
  /\ nElements' = nElements + 1
  /\ retryBatch' = BuildRetryBatch(Elements(buf), config.db)
  /\ nWrites' = nWrites + 1
  /\ pc' = "Retry"
  /\ written' = written \cup {BatchTime(bp)}
  /\ inFlight' = (inFlight \ {<<"primary", clock>>}) \cup {<<"retry", clock>>}
  /\ UNCHANGED <<startup, registerErr, pings,
                 built, evicted,
                 config, elementsClears, ticker, done, clock, snapshot, bp,
                 bufStart, outcome, ticksAfterDone>>

RetryFail_NoReAdd ==
  /\ pc = "Retry"
  /\ pc' = "Idle"
  /\ outcome' = "retryFailed"
  /\ snapshot' = NoSnapshot
  /\ bp' = NoBatch
  /\ retryBatch' = NoBatch
  /\ sent' = 0
  /\ inFlight' = inFlight \ {<<"retry", clock>>}
  /\ UNCHANGED <<startup, registerErr, pings,
                 built, written, evicted, buf,
                 config, elementsClears, ticker, done, clock, bpPending,
                 bufStart, nWrites, nElements, ticksAfterDone>>

\* Write(retryBatch) returned an error: cw.buf.Add(bpPending...); continue.
\* The iteration's snapshot, bp, retryBatch and logged count go out of scope.
RetryFail ==
  /\ pc = "Retry"
  /\ buf' = Add(buf, bpPending)
  /\ pc' = "Idle"
  /\ outcome' = "retryFailed"
  /\ snapshot' = NoSnapshot
  /\ bp' = NoBatch
  /\ retryBatch' = NoBatch
  /\ sent' = 0
  /\ evicted' = evicted \cup BatchTimes(Dropped(buf, bpPending))
  /\ inFlight' = inFlight \ {<<"retry", clock>>}
  /\ UNCHANGED <<startup, registerErr, pings,
                 built, written,
                 config, elementsClears, ticker, done, clock, bpPending,
                 bufStart, nWrites, nElements, ticksAfterDone>>

\* Write(retryBatch) returned nil: end of the loop body.
\* The iteration's snapshot, bp, retryBatch and logged count go out of scope.
RetryOk ==
  /\ pc = "Retry"
  /\ pc' = "Idle"
  /\ outcome' = "sent"
  /\ snapshot' = NoSnapshot
  /\ bp' = NoBatch
  /\ retryBatch' = NoBatch
  /\ sent' = 0
  /\ written' = written \cup BatchTimes(bpPending)
  /\ inFlight' = inFlight \ {<<"retry", clock>>}
  /\ UNCHANGED <<startup, registerErr, pings,
                 built, evicted,
                 config, elementsClears, buf, ticker, done, clock, bpPending,
                 bufStart, nWrites, nElements, ticksAfterDone>>

Next ==
  \/ Register
  \/ Tick
  \/ Cancel
  \/ SelectTick
  \/ SelectDone
  \/ PrimaryFail
  \/ PrimaryOk
  \/ RetryFail
  \/ RetryOk

Spec == Init /\ [][Next]_vars

TypeOK ==
  /\ pc \in {"Register", "NotStarted", "Idle", "Primary", "Retry", "Terminated"}
  /\ registerErr \in {"nil", "configErr", "clientErr", "pingErr"}
  /\ pings \in 0..1
  /\ clock \in 0..MaxCycles
  /\ outcome \in {"none", "skipped", "running", "primaryFailed",
                  "retryFailed", "sent"}
  /\ nWrites \in 0..2
  /\ nElements \in 0..1

(***************************************************************************)
(* Properties                                                              *)
(***************************************************************************)
Last(seq) == seq[Len(seq)]

\* C1: a cycle whose snapshot has no counters and no gauges, whatever its
\* histograms, issues no Write (and no Elements) call and leaves the Retry
\* Buffer exactly as it was when the cycle started.
C1_SkipLeavesBufferAlone ==
  (snapshot.Time > 0 /\ Len(snapshot.Counters) = 0 /\ Len(snapshot.Gauges) = 0)
    => /\ nWrites = 0
       /\ nElements = 0
       /\ buf.data = bufStart
       /\ pc \in {"Idle", "Terminated"}

C1_Witness ==
  /\ snapshot.Time > 0
  /\ Len(snapshot.Counters) = 0
  /\ Len(snapshot.Gauges) = 0
  /\ Len(snapshot.Histograms) > 0
  /\ outcome = "skipped"
  /\ Len(buf.data) > 0

C3_Capacity == Len(buf.data) <= config.bufferSize

C3_Witness ==
  /\ outcome = "retryFailed"
  /\ Len(bpPending) >= 2
  /\ Len(bufStart) + Len(bpPending) > config.bufferSize
  /\ Len(buf.data) = config.bufferSize

C5_EmptyAfterSuccess == outcome = "sent" => buf.data = <<>>

\* C6 (as stated): after a cycle whose primary write succeeded and whose retry
\* write failed the Retry Buffer holds the batches it held when the cycle
\* started, in the same order, each once.
C6_SameAfterRetryFailure == outcome = "retryFailed" => buf.data = bufStart

\* C7 (as stated): when the loop leaves its select with both a tick and the
\* cancellation pending, it terminates, taking no snapshot and issuing no
\* write.
C7_CancelWins ==
  [][(pc = "Idle" /\ ticker /\ done)
       => (pc' = "Terminated" /\ clock' = clock /\ nWrites' = nWrites)]_vars

\* C8 (as stated): after the cancellation signal the loop consumes at most
\* one further tick.
C8_AtMostOneTickAfterCancel == ticksAfterDone <= 1

\* C9: once the loop has returned, it stays returned: no snapshot is taken,
\* no Write or Elements call is issued and the Retry Buffer is not modified,
\* whatever it still holds.
C9_TerminatedIsTerminal ==
  [][pc = "Terminated"
       => /\ pc' = "Terminated"
          /\ UNCHANGED <<buf, clock, snapshot, bp, bpPending, retryBatch,
                         sent, nWrites, nElements, outcome>>]_vars

C9_Witness ==
  /\ pc = "Terminated"
  /\ Len(buf.data) > 0
  /\ ticker
  /\ clock < MaxCycles

\* C10: a write never ends the loop: a failed primary or retry write takes
\* the loop back to Idle, the loop reaches Terminated only from Idle with the
\* cancellation signalled, and in Idle a pending tick can start a new cycle.
C10_NoWriteFailureIsFatal ==
  /\ [][/\ (pc \in {"Primary", "Retry"} /\ pc' # pc) => pc' \in {"Idle", "Retry"}
        /\ (outcome' \in {"primaryFailed", "retryFailed"} /\ outcome' # outcome)
             => pc' = "Idle"
        /\ (pc # "Terminated" /\ pc' = "Terminated") => (pc = "Idle" /\ done)]_vars
  /\ []((pc = "Idle" /\ ticker /\ clock < MaxCycles) => ENABLED SelectTick)

C10_Witness ==
  /\ pc = "Primary"
  /\ Len(bufStart) > 0
  /\ clock >= 2
  /\ ~done

Min(a, b) == IF a < b THEN a ELSE b

\* C11: at every cycle boundary each batch built from a send-worthy snapshot
\* was carried by a successful Write (primary or retry), or is in the Retry
\* Buffer, or was dropped by an Add that exceeded the capacity.
C11_AtLeastOnce ==
  pc \in {"Idle", "Terminated"}
    => \A t \in built :
         \/ t \in written
         \/ t \in BatchTimes(buf.data)
         \/ t \in evicted

C11_Witness ==
  /\ pc = "Idle"
  /\ \E t \in built : t \in written /\ t \notin BatchTimes(buf.data)
  /\ \E t \in built : t \notin written /\ t \in BatchTimes(buf.data)
  /\ \E t \in built : t \in evicted /\ t \notin written
                      /\ t \notin BatchTimes(buf.data)
  /\ outcome = "retryFailed"

\* every cycle so far had a send-worthy snapshot and no Write has succeeded
Outage == written = {} /\ built = 1..clock

\* C12: while the store rejects every write, after k send-worthy cycles the
\* Retry Buffer holds exactly the batches of the last min(k, bufferSize)
\* cycles, oldest first; the earlier ones, and only they, were dropped by Add.
C12_SustainedOutage ==
  (Outage /\ pc \in {"Idle", "Terminated"})
    => LET k == clock
           m == Min(k, config.bufferSize)
       IN  /\ Len(buf.data) = m
           /\ \A i \in 1..m : BatchTime(buf.data[i]) = k - m + i
           /\ evicted = 1..(k - m)
           /\ k > 0 => Last(buf.data) = bp

C12_Witness ==
  /\ Outage
  /\ pc = "Idle"
  /\ config.bufferSize >= 2
  /\ clock > config.bufferSize

StartupOk == startup.configOk /\ startup.clientOk /\ startup.pingOk

\* C13: when the configuration lookup, the client construction or the
\* initial Ping fails, Register returns an error and the loop never runs: no
\* tick is consumed, no snapshot taken, no Write issued; Ping is called once
\* if the client was built and not at all otherwise.
C13_StartupFatal ==
  (pc # "Register" /\ ~StartupOk)
    => /\ registerErr # "nil"
       /\ pc = "NotStarted"
       /\ ~ticker
       /\ clock = 0
       /\ snapshot = NoSnapshot
       /\ nWrites = 0
       /\ buf = NoBuffer
       /\ pings = IF startup.configOk /\ startup.clientOk THEN 1 ELSE 0

C13_Witness ==
  /\ pc = "NotStarted"
  /\ registerErr = "pingErr"
  /\ pings = 1
  /\ done

\* C14: after a successful primary write the logged count is the number of
\* points of the batch that was written, i.e. of the counter, gauge and
\* histogram points of the cycle's snapshot, without any retry point; a
\* failed primary write logs no count.
C14_SentCount ==
  /\ pc = "Retry"
       => /\ sent = Len(bp.points)
          /\ sent = Len(counterPoints(hostname, snapshot.Time, snapshot.Counters))
                    + Len(gaugePoints(hostname, snapshot.Time, snapshot.Gauges))
                    + Len(histogramPoints(hostname, snapshot.Time,
                                          snapshot.Histograms))
  /\ pc = "Primary" => sent = 0
  /\ outcome = "primaryFailed" => sent = 0

C14_Witness ==
  /\ pc = "Retry"
  /\ Len(retryBatch.points) > 0
  /\ Len(snapshot.Histograms) > 0
  /\ sent >= 2

\* C15: at most one Write is in flight; a primary write starts only from
\* Idle with nothing in flight, a retry write starts only when the primary
\* write of the same cycle has returned, and while a write is in flight it
\* is the one of the loop's position and cycle.
C15_SequentialWrites ==
  /\ [](Cardinality(inFlight) <= 1)
  /\ [](pc = "Primary" => inFlight = {<<"primary", clock>>})
  /\ [](pc = "Retry" => inFlight = {<<"retry", clock>>})
  /\ [](pc \notin {"Primary", "Retry"} => inFlight = {})
  /\ [][\A w \in inFlight' \ inFlight :
          /\ inFlight' = {w}
          /\ w[1] = "primary" => (pc = "Idle" /\ inFlight = {} /\ w[2] = clock + 1)
          /\ w[1] = "retry" => (pc = "Primary" /\ inFlight = {<<"primary", w[2]>>}
                                /\ w[2] = clock)]_vars

C15_Witness ==
  /\ pc = "Retry"
  /\ inFlight = {<<"retry", clock>>}
  /\ clock >= 2
  /\ ticker

\* C16: the batch handed to the primary Write holds the counter points, then
\* the gauge points, then the histogram points of the snapshot, for the
\* configured database with precision "s".
C16_PrimaryBatchContent ==
  pc = "Primary"
    => /\ shouldSend(snapshot)
       /\ bp.points = counterPoints(hostname, snapshot.Time, snapshot.Counters)
                      \o gaugePoints(hostname, snapshot.Time, snapshot.Gauges)
                      \o histogramPoints(hostname, snapshot.Time,
                                         snapshot.Histograms)
       /\ bp.db = config.db
       /\ bp.precision = "s"

C16_Witness ==
  /\ pc = "Primary"
  /\ Len(snapshot.Counters) = 0
  /\ Len(snapshot.Gauges) > 0
  /\ Len(snapshot.Histograms) > 0
  /\ Len(bp.points) = Len(snapshot.Gauges) + Len(snapshot.Histograms)

\* number of points of the batches before the k-th
RECURSIVE PointsBefore(_, _)
PointsBefore(batches, k) ==
  IF k <= 1 THEN 0
  ELSE PointsBefore(batches, k - 1) + Len(batches[k - 1].points)

\* C17: the batch handed to the retry Write holds the points of the batches
\* the Retry Buffer held when Elements() was called, batch after batch from
\* the oldest, each batch's points in their order, and no point of the
\* cycle's own batch.
C17_RetryBatchContent ==
  pc = "Retry"
    => /\ bpPending = bufStart
       /\ Len(retryBatch.points) = PointsBefore(bufStart, Len(bufStart) + 1)
       /\ \A k \in 1..Len(bufStart) : \A j \in 1..Len(bufStart[k].points) :
            retryBatch.points[PointsBefore(bufStart, k) + j] = bufStart[k].points[j]
       /\ \A i \in 1..Len(retryBatch.points) : \A j \in 1..Len(bp.points) :
            retryBatch.points[i] # bp.points[j]

C17_Witness ==
  /\ pc = "Retry"
  /\ Len(bufStart) >= 2
  /\ bufStart[1] # bufStart[2]
  /\ Len(bufStart[1].points) >= 2

\* C18: a skipped cycle issues no Write, a cycle whose primary write fails
\* one, a cycle whose primary write succeeds two, the second also when the
\* buffer is empty (a batch without points); when that write fails the
\* buffer stays empty.
C18_WritesPerCycle ==
  /\ outcome = "skipped" => nWrites = 0
  /\ outcome = "primaryFailed" => nWrites = 1
  /\ outcome \in {"sent", "retryFailed"} => nWrites = 2
  /\ pc = "Primary" => nWrites = 1
  /\ pc = "Retry" => nWrites = 2
  /\ (pc = "Retry" /\ bufStart = <<>>) => retryBatch.points = <<>>
  /\ (outcome = "retryFailed" /\ bufStart = <<>>) => buf.data = <<>>

C18_Witness ==
  /\ outcome = "retryFailed"
  /\ bufStart = <<>>
  /\ buf.data = <<>>
  /\ nWrites = 2
  /\ pc = "Idle"

\* C19 (as stated): over a cycle the number of buffered batches grows by at
\* most one, and it grows only in a cycle whose primary write failed.
C19_GrowsOnlyOnPrimaryFailure ==
  outcome \in {"skipped", "primaryFailed", "retryFailed", "sent"}
    => /\ Len(buf.data) <= Len(bufStart) + 1
       /\ Len(buf.data) > Len(bufStart) => outcome = "primaryFailed"
====
